---- MODULE Spec2Model ----
(***************************************************************************)
(* State-machine model of the SATpwn plugin (src/SATpwn.py): the AP/client *)
(* memory store, the per-channel aggregation, the channel-selection        *)
(* policies (strict, loose, drive-by, recon), the auto meta-policy and the *)
(* attack gate with its worker pool.                                       *)
(*                                                                         *)
(* Time is the integer clock `now` (seconds, time.time()).  Scores are     *)
(* kept as exact integers in units of 1/ScoreScale, so that the hourly     *)
(* decay of SCORE_DECAY_PENALTY_PER_HOUR per 3600 s is one unit per second.*)
(***************************************************************************)
EXTENDS Integers, Sequences, FiniteSets, TLC

VARIABLES
    now,                    \* time.time()
    alive,                  \* the plugin object exists (between load and unload)
    plugin_enabled,         \* self.plugin_enabled
    ready,                  \* self.ready
    mode,                   \* self.mode
    memory,                 \* self.memory: AP mac -> AP record
    channel_stats,          \* self.channel_stats (cache)
    memory_is_dirty,        \* self.memory_is_dirty
    recon_channel_iterator, \* self.recon_channel_iterator: generator state
    recon_channels_tested,  \* self.recon_channels_tested
    activity_history,       \* self._activity_history: sequence of [t, count]
    stationary_start,       \* self._stationary_start
    current_auto_submode,   \* self._current_auto_submode
    home_whitelist,         \* self.home_whitelist
    tasks,                  \* work items of self.executor, in submission order
    disk,                   \* the snapshot file at self.memory_path
    last_op,                \* observation: the last operation and what it did
    pass_log,               \* observation: recon calls since the cursor was reset
    pass_fixed,             \* observation: those calls all saw the cursor's list
    prev_policy,            \* observation: the policy of the last epoch in this mode
    sweep                   \* a _cleanup_memory call in progress: its position and
                            \* its local expired_aps

vars == <<now, alive, plugin_enabled, ready, mode, memory, channel_stats,
          memory_is_dirty, recon_channel_iterator, recon_channels_tested,
          activity_history, stationary_start, current_auto_submode,
          home_whitelist, tasks, disk, last_op, pass_log, pass_fixed,
          prev_policy, sweep>>

-----------------------------------------------------------------------------
(* Class constants, src/SATpwn.py lines 26-45 and 52-54.                    *)

AP_EXPIRY_SECONDS == 3600 * 48
CLIENT_EXPIRY_SECONDS == 3600 * 24
ATTACK_SCORE_THRESHOLD == 50
ATTACK_COOLDOWN_SECONDS == 300
SUCCESS_BONUS_DURATION_SECONDS == 1800
SCORE_DECAY_PENALTY_PER_HOUR == 5
PMKID_FRIENDLY_APS_THRESHOLD == 3
HANDSHAKE_WEIGHT == 10
CLIENT_WEIGHT == 1
SCORE_RECALCULATION_INTERVAL_SECONDS == 30
DRIVE_BY_AP_EXPIRY_SECONDS == 1800
DRIVE_BY_CLIENT_EXPIRY_SECONDS == 900
DRIVE_BY_ATTACK_SCORE_THRESHOLD == 20
DRIVE_BY_ATTACK_COOLDOWN_SECONDS == 60
STATIONARY_SECONDS == 3600
ACTIVITY_THRESHOLD == 5
ACTIVITY_WINDOW_SECONDS == 300
MAX_WORKERS == 5
SUCCESS_BONUS == 50
AUTO_LOOSE_BELOW == 10

modes == <<"strict", "loose", "drive-by", "recon", "auto">>

\* Python's None for self._stationary_start (a time is never negative).
None == -1

\* One score point is ScoreScale units: age_hours * SCORE_DECAY_PENALTY_PER_HOUR
\* = age_seconds / ScoreScale.
ScoreScale == 3600 \div SCORE_DECAY_PENALTY_PER_HOUR

-----------------------------------------------------------------------------
(* Bounds of the model.                                                     *)

\* The clock starts at StartTime; each environment runs it for its horizon.
StartTime == 10 * AP_EXPIRY_SECONDS
GateHorizon == 310
AutoHorizon == 4000
\* Work items waiting for or running on the worker pool.
MaxTasks == 1
\* Recon calls recorded since the last cursor reset.
MaxPassLog == 3
\* Scans remembered in the activity window.
MaxHistory == 2
\* Captures counted per access point.
MaxHandshakes == 2
\* How far the clock runs on where records expire.
ExpireHorizon == 172801
DriveByHorizon == 1801

-----------------------------------------------------------------------------
(* Generic helpers.                                                         *)

Max(a, b) == IF a >= b THEN a ELSE b
Min(a, b) == IF a <= b THEN a ELSE b
Range(s) == {s[i] : i \in DOMAIN s}
EmptyMap == [x \in {} |-> 0]
Without(f, ks) == [x \in DOMAIN f \ ks |-> f[x]]
RemoveAt(s, i) == [j \in 1..(Len(s) - 1) |-> IF j < i THEN s[j] ELSE s[j + 1]]

\* str.lower() on the MAC spellings the scans use.
Lower(m) ==
    CASE m = "AA:01" -> "aa:01"
      [] m = "AA:02" -> "aa:02"
      [] m = "CC:01" -> "cc:01"
      [] OTHER -> m

-----------------------------------------------------------------------------
(* Memory store: scoring, ingestion, capture, expiry, aggregation.          *)

\* The score without the floor at 0.
RecalculateUnclamped(c, t) ==
    LET base == (c.signal + 100) * ScoreScale
        bonus == IF c.last_success > t - SUCCESS_BONUS_DURATION_SECONDS
                 THEN SUCCESS_BONUS * ScoreScale ELSE 0
        decay == t - c.last_seen
    IN base + bonus - decay

\* _recalculate_client_score: the score (in 1/ScoreScale points) of a client
\* record at time t.  client_data.get('last_seen', time.time()) is the record's
\* last_seen: every record the plugin creates carries the field.
RecalculateClientScore(c, t) ==
    LET base == (c.signal + 100) * ScoreScale
        bonus == IF c.last_success > t - SUCCESS_BONUS_DURATION_SECONDS
                 THEN SUCCESS_BONUS * ScoreScale ELSE 0
        decay == t - c.last_seen
    IN Max(0, base + bonus - decay)

\* The threshold and cooldown on_wifi_update applies in mode m.
AttackScoreThreshold(m) ==
    IF m = "drive-by" THEN DRIVE_BY_ATTACK_SCORE_THRESHOLD ELSE ATTACK_SCORE_THRESHOLD

AttackCooldown(m) ==
    IF m = "drive-by" THEN DRIVE_BY_ATTACK_COOLDOWN_SECONDS ELSE ATTACK_COOLDOWN_SECONDS

\* The condition of line 471 under which an attempt is marked and dispatched.
GateOpenNoCooldown(score, last_attempt, m, t) ==
    score >= AttackScoreThreshold(m) * ScoreScale

GateOpen(score, last_attempt, m, t) ==
    /\ score >= AttackScoreThreshold(m) * ScoreScale
    /\ t - last_attempt > AttackCooldown(m)

NewClient(rssi, t) ==
    [last_seen |-> t, signal |-> rssi, score |-> 0, last_attempt |-> 0,
     last_success |-> 0, last_recalculated |-> 0]

\* A dict lookup d[k] raises KeyError when the key is missing.
Has(d, k) == k \in DOMAIN d

\* One client of one observed AP (lines 441-473).  st = [mem, new, marked,
\* raised]; marked lists the attempts marked so far, each with the stamp it
\* replaced, and raised says that a lookup has raised, which ends the call.
IngestClient(st, ap_mac, client, m, t) ==
    LET client_mac == Lower(client.mac)
        old == st.mem[ap_mac].clients
        c1 == IF client_mac \notin DOMAIN old
              THEN NewClient(client.rssi, t)
              ELSE [old[client_mac] EXCEPT !.last_seen = t, !.signal = client.rssi]
        stale == t - c1.last_recalculated > SCORE_RECALCULATION_INTERVAL_SECONDS
        c2 == IF stale
              THEN [c1 EXCEPT !.score = RecalculateClientScore(c1, t),
                              !.last_recalculated = t]
              ELSE c1
        hit == GateOpen(c2.score, c2.last_attempt, m, t)
        c3 == IF hit THEN [c2 EXCEPT !.last_attempt = t] ELSE c2
        clients == [x \in DOMAIN old \cup {client_mac} |->
                        IF x = client_mac THEN c3 ELSE old[x]]
    IN IF st.raised THEN st
       ELSE IF ~Has(client, "mac") \/ ~Has(client, "rssi")
       THEN [st EXCEPT !.raised = TRUE]
       ELSE [mem |-> [st.mem EXCEPT ![ap_mac].clients = clients],
             new |-> st.new,
             marked |-> IF hit
                        THEN Append(st.marked,
                                    [ap |-> ap_mac, client |-> client_mac,
                                     prev |-> c2.last_attempt])
                        ELSE st.marked,
             raised |-> FALSE]

RECURSIVE IngestClients(_, _, _, _, _, _)
IngestClients(st, ap_mac, clients, i, m, t) ==
    IF i > Len(clients) THEN st
    ELSE IngestClients(IngestClient(st, ap_mac, clients[i], m, t),
                       ap_mac, clients, i + 1, m, t)

\* One observed AP with the record of a tracked AP begun anew at each sighting,
\* its clients kept.
IngestAPStartsOver(st, ap, m, t) ==
    LET ap_mac == Lower(ap.mac)
        isNew == ap_mac \notin DOMAIN st.mem
        rec == [ssid |-> ap.hostname, channel |-> ap.channel,
                clients |-> IF isNew THEN EmptyMap ELSE st.mem[ap_mac].clients,
                last_seen |-> t, handshakes |-> 0]
        mem1 == [x \in DOMAIN st.mem \cup {ap_mac} |->
                    IF x = ap_mac THEN rec ELSE st.mem[x]]
        st1 == [mem |-> mem1,
                new |-> IF isNew THEN st.new + 1 ELSE st.new,
                marked |-> st.marked,
                raised |-> FALSE]
    IN IF st.raised THEN st
       ELSE IF ~Has(ap, "mac") \/ ~Has(ap, "hostname") \/ ~Has(ap, "channel")
       THEN [st EXCEPT !.raised = TRUE]
       ELSE IF ~Has(ap, "clients")
       THEN [st1 EXCEPT !.raised = TRUE]
       ELSE IngestClients(st1, ap_mac, ap.clients, 1, m, t)

\* One observed AP with every sighting counted as a new AP.
IngestAPCountsAll(st, ap, m, t) ==
    LET ap_mac == Lower(ap.mac)
        isNew == ap_mac \notin DOMAIN st.mem
        rec == IF isNew
               THEN [ssid |-> ap.hostname, channel |-> ap.channel,
                     clients |-> EmptyMap, last_seen |-> t, handshakes |-> 0]
               ELSE [st.mem[ap_mac] EXCEPT !.last_seen = t, !.ssid = ap.hostname,
                                           !.channel = ap.channel]
        mem1 == [x \in DOMAIN st.mem \cup {ap_mac} |->
                    IF x = ap_mac THEN rec ELSE st.mem[x]]
    IN IngestClients([mem |-> mem1, new |-> st.new + 1, marked |-> st.marked,
                      raised |-> st.raised],
                     ap_mac, ap.clients, 1, m, t)

\* One observed AP (lines 423-473): create or refresh its record, then its
\* clients.  ap['mac'], ap['hostname'] and ap['channel'] are looked up before the
\* record is written, ap['clients'] after.
IngestAP(st, ap, m, t) ==
    LET ap_mac == Lower(ap.mac)
        isNew == ap_mac \notin DOMAIN st.mem
        rec == IF isNew
               THEN [ssid |-> ap.hostname, channel |-> ap.channel,
                     clients |-> EmptyMap, last_seen |-> t, handshakes |-> 0]
               ELSE [st.mem[ap_mac] EXCEPT !.last_seen = t, !.ssid = ap.hostname,
                                           !.channel = ap.channel]
        mem1 == [x \in DOMAIN st.mem \cup {ap_mac} |->
                    IF x = ap_mac THEN rec ELSE st.mem[x]]
        st1 == [mem |-> mem1,
                new |-> IF isNew THEN st.new + 1 ELSE st.new,
                marked |-> st.marked,
                raised |-> FALSE]
    IN IF st.raised THEN st
       ELSE IF ~Has(ap, "mac") \/ ~Has(ap, "hostname") \/ ~Has(ap, "channel")
       THEN [st EXCEPT !.raised = TRUE]
       ELSE IF ~Has(ap, "clients")
       THEN [st1 EXCEPT !.raised = TRUE]
       ELSE IngestClients(st1, ap_mac, ap.clients, 1, m, t)

RECURSIVE IngestAPs(_, _, _, _, _)
IngestAPs(st, aps, i, m, t) ==
    IF i > Len(aps) THEN st
    ELSE IngestAPs(IngestAP(st, aps[i], m, t), aps, i + 1, m, t)

\* The loop of on_wifi_update over access_points (lines 419-473).
Ingest(mem, aps, m, t) ==
    IngestAPs([mem |-> mem, new |-> 0, marked |-> <<>>, raised |-> FALSE],
              aps, 1, m, t)

\* _update_activity_history (lines 174-179).
UpdateActivityHistory(hist, new_ap_count, t) ==
    LET h == Append(hist, [t |-> t, count |-> new_ap_count])
    IN SelectSeq(h, LAMBDA e : e.t > t - ACTIVITY_WINDOW_SECONDS)

\* The capture that forgets the client it was made from.
RecordCaptureForgetsClient(mem, ap_mac, client_mac, t) ==
    LET mem1 == IF ap_mac \in DOMAIN mem
                THEN [mem EXCEPT ![ap_mac].handshakes = @ + 1]
                ELSE mem
    IN IF ap_mac \in DOMAIN mem1 /\ client_mac \in DOMAIN mem1[ap_mac].clients
       THEN [mem1 EXCEPT ![ap_mac].clients =
                            Without(mem1[ap_mac].clients, {client_mac})]
       ELSE mem1

\* The capture recorded without the score being recomputed.
RecordCaptureStaleScore(mem, ap_mac, client_mac, t) ==
    LET mem1 == IF ap_mac \in DOMAIN mem
                THEN [mem EXCEPT ![ap_mac].handshakes = @ + 1]
                ELSE mem
    IN IF ap_mac \in DOMAIN mem1 /\ client_mac \in DOMAIN mem1[ap_mac].clients
       THEN [mem1 EXCEPT ![ap_mac].clients[client_mac].last_success = t]
       ELSE mem1

\* on_handshake's effect on the store (lines 483-490).
RecordCapture(mem, ap_mac, client_mac, t) ==
    LET mem1 == IF ap_mac \in DOMAIN mem
                THEN [mem EXCEPT ![ap_mac].handshakes = @ + 1]
                ELSE mem
    IN IF ap_mac \in DOMAIN mem1 /\ client_mac \in DOMAIN mem1[ap_mac].clients
       THEN LET c1 == [mem1[ap_mac].clients[client_mac] EXCEPT !.last_success = t]
                c2 == [c1 EXCEPT !.score = RecalculateClientScore(c1, t)]
            IN [mem1 EXCEPT ![ap_mac].clients[client_mac] = c2]
       ELSE mem1

\* The TTLs _cleanup_memory applies in mode m (lines 284-285).
ApExpiry(m) ==
    IF m = "drive-by" THEN DRIVE_BY_AP_EXPIRY_SECONDS ELSE AP_EXPIRY_SECONDS

ClientExpiry(m) ==
    IF m = "drive-by" THEN DRIVE_BY_CLIENT_EXPIRY_SECONDS ELSE CLIENT_EXPIRY_SECONDS

\* The sweep with records expiring as soon as their age reaches the TTL.
CleanupMemoryAtTTL(mem, m, t) ==
    LET expired_aps == {a \in DOMAIN mem : t - mem[a].last_seen >= ApExpiry(m)}
        kept == Without(mem, expired_aps)
    IN [a \in DOMAIN kept |->
          LET cl == kept[a].clients
              expired_clients == {c \in DOMAIN cl : t - cl[c].last_seen >= ClientExpiry(m)}
          IN [kept[a] EXCEPT !.clients = Without(cl, expired_clients)]]

\* The sweep dropping one expired AP per call.
CleanupMemoryOneAP(mem, m, t) ==
    LET expired_aps == {a \in DOMAIN mem : t - mem[a].last_seen > ApExpiry(m)}
        first == IF expired_aps = {} THEN {} ELSE {CHOOSE a \in expired_aps : TRUE}
        kept == Without(mem, first)
    IN [a \in DOMAIN kept |->
          LET cl == kept[a].clients
              expired_clients == {c \in DOMAIN cl : t - cl[c].last_seen > ClientExpiry(m)}
          IN [kept[a] EXCEPT !.clients = Without(cl, expired_clients)]]

\* _cleanup_memory's sweep (lines 287-301).
CleanupMemory(mem, m, t) ==
    LET expired_aps == {a \in DOMAIN mem : t - mem[a].last_seen > ApExpiry(m)}
        kept == Without(mem, expired_aps)
    IN [a \in DOMAIN kept |->
          LET cl == kept[a].clients
              expired_clients == {c \in DOMAIN cl : t - cl[c].last_seen > ClientExpiry(m)}
          IN [kept[a] EXCEPT !.clients = Without(cl, expired_clients)]]

\* _get_channel_stats (lines 339-351): one pass over the AP records; a record
\* whose channel is None is passed over.
RECURSIVE GetChannelStatsFrom(_, _, _)
GetChannelStatsFrom(mem, todo, stats) ==
    IF todo = {} THEN stats
    ELSE LET a == CHOOSE x \in todo : TRUE
             ch == mem[a].channel
             old == IF ch \in DOMAIN stats THEN stats[ch]
                    ELSE [aps |-> 0, clients |-> 0, handshakes |-> 0]
             upd == [aps |-> old.aps + 1,
                     clients |-> old.clients + Cardinality(DOMAIN mem[a].clients),
                     handshakes |-> old.handshakes + mem[a].handshakes]
         IN IF ch = None THEN GetChannelStatsFrom(mem, todo \ {a}, stats)
            ELSE GetChannelStatsFrom(mem, todo \ {a},
                    [x \in DOMAIN stats \cup {ch} |->
                        IF x = ch THEN upd ELSE stats[x]])

GetChannelStatsNoHandshakes(mem) ==
    LET s == GetChannelStatsFrom(mem, DOMAIN mem, EmptyMap)
    IN [ch \in DOMAIN s |-> [s[ch] EXCEPT !.handshakes = 0]]

GetChannelStats(mem) == GetChannelStatsFrom(mem, DOMAIN mem, EmptyMap)

-----------------------------------------------------------------------------
(* Channel-selection policies.                                              *)

\* PMKID_FRIENDLY_BOOST_FACTOR = 1.5 as the fraction BoostNum / BoostDen.
BoostNum == 3
BoostDen == 2

\* The weight of lines 510-512, times BoostDen (so that it stays an integer).
Weight(st) ==
    LET w == st.clients * CLIENT_WEIGHT + st.handshakes * HANDSHAKE_WEIGHT
    IN IF st.aps > PMKID_FRIENDLY_APS_THRESHOLD /\ st.aps > st.clients
       THEN w * BoostNum ELSE w * BoostDen

\* The choice made among all tracked-and-supported channels whatever their weight.
WeightedChoicesAny(stats, supported, bonus) ==
    LET channels == DOMAIN stats
        with_weights == channels \cap Range(supported)
    IN IF with_weights = {} THEN Range(supported) ELSE with_weights

\* The channels random.choice / random.choices can return at lines 501-529,
\* where bonus is added to every weight (0 in strict, 1.0 in loose).
WeightedChoices(stats, supported, bonus) ==
    LET channels == DOMAIN stats
        with_weights == channels \cap Range(supported)
        w(ch) == Weight(stats[ch]) + bonus * BoostDen
    IN IF channels = {} THEN Range(supported)
       ELSE IF with_weights = {} THEN Range(supported)
       ELSE IF \A ch \in with_weights : w(ch) = 0 THEN with_weights
       ELSE {ch \in with_weights : w(ch) > 0}

\* Lines 497-499 and 535-537: the cache is recomputed when dirty or empty.
RefreshStatsKeepsCache(stats, dirty, mem) ==
    IF DOMAIN stats = {}
    THEN [stats |-> GetChannelStats(mem), dirty |-> FALSE]
    ELSE [stats |-> stats, dirty |-> dirty]

RefreshStats(stats, dirty, mem) ==
    IF dirty \/ DOMAIN stats = {}
    THEN [stats |-> GetChannelStats(mem), dirty |-> FALSE]
    ELSE [stats |-> stats, dirty |-> dirty]

\* What one policy call leaves behind: the channel given to set_channel (0 when
\* none was), the policy that chose it, the recon cursor and the stats cache.
Result(ch, outcome, via, iter, tested, r, adv) ==
    [channel |-> ch, outcome |-> outcome, via |-> via, iter |-> iter,
     tested |-> tested, stats |-> r.stats, dirty |-> r.dirty, advances |-> adv]

\* _epoch_strict (lines 495-531).
EpochStrict(supported, iter, tested, stats, dirty, mem, via) ==
    LET r == RefreshStats(stats, dirty, mem)
    IN {Result(ch, "set", via, iter, tested, r, 0) :
            ch \in WeightedChoices(r.stats, supported, 0)}

\* _epoch_loose (lines 533-577); explore is random.random() < EXPLORATION_PROBABILITY.
EpochLoose(supported, explore, iter, tested, stats, dirty, mem) ==
    LET r == RefreshStats(stats, dirty, mem)
        choices == IF explore THEN Range(supported)
                   ELSE WeightedChoices(r.stats, supported, 1)
    IN {Result(ch, "set", "loose", iter, tested, r, 0) : ch \in choices}

\* The generator of _channel_iterator: "none" before it is created, "live" with
\* the list it cycles over and the number of items yielded (mod its length),
\* "dead" once it has finished or an exception has left it.
NoIterator == [state |-> "none", list |-> <<>>, pos |-> 0]
DeadIterator == [state |-> "dead", list |-> <<>>, pos |-> 0]
ChannelIterator(channels) ==
    IF channels = <<>> THEN DeadIterator
    ELSE [state |-> "live", list |-> channels, pos |-> 0]

\* The k-th next() of a live iterator.
NextItem(iter, k) == iter.list[((iter.pos + k - 1) % Len(iter.list)) + 1]

\* Line 589: every supported channel has been tested in this pass.
PassCompleteOffByOne(tested, supported) == Len(tested) > Len(supported)

PassComplete(tested, supported) == Len(tested) >= Len(supported)

\* _epoch_recon (lines 583-601), its self-recursion unfolded: the call advances
\* the iterator until it yields a channel not yet tested.  A cyclic iterator that
\* yields no such channel within one cycle never will; the recursion then runs
\* until the interpreter's recursion limit raises RecursionError, which leaves
\* the generator either finished or suspended at a position that depends on the
\* limit, and no channel is set.
EpochRecon(supported, iter0, tested0, stats, dirty, mem) ==
    LET fresh == iter0.state = "none"
        iter == IF fresh THEN ChannelIterator(supported) ELSE iter0
        tested == IF fresh THEN <<>> ELSE tested0
        L == Len(iter.list)
        hits == {k \in 1..L : NextItem(iter, k) \notin Range(tested)}
        keep == [stats |-> stats, dirty |-> dirty]
    IN IF PassComplete(tested, supported)
       THEN EpochStrict(supported, iter, tested, stats, dirty, mem, "recon-strict")
       ELSE IF iter.state = "dead"
       THEN EpochStrict(supported, iter, tested, stats, dirty, mem, "recon-strict")
       ELSE IF hits # {}
       THEN LET k == CHOOSE x \in hits : \A y \in hits : x <= y
                ch == NextItem(iter, k)
            IN {Result(ch, "set", "recon", [iter EXCEPT !.pos = (iter.pos + k) % L],
                       Append(tested, ch), keep, k)}
       ELSE {Result(0, "recursion_error", "recon", it, tested, keep, L + 1) :
                it \in {DeadIterator} \cup {[iter EXCEPT !.pos = p] : p \in 0..(L - 1)}}

-----------------------------------------------------------------------------
(* Auto meta-policy.                                                        *)

RECURSIVE SumCounts(_, _)
SumCounts(hist, i) ==
    IF i > Len(hist) THEN 0 ELSE hist[i].count + SumCounts(hist, i + 1)

\* The sum of lines 184-185 and 201-202.
RecentActivity(hist, t) ==
    SumCounts(SelectSeq(hist, LAMBDA e : t - e.t <= ACTIVITY_WINDOW_SECONDS), 1)

\* _is_stationary (lines 181-196): the answer and the new _stationary_start.
IsStationary(hist, ss, t) ==
    IF RecentActivity(hist, t) < ACTIVITY_THRESHOLD
    THEN LET ss1 == IF ss = None THEN t ELSE ss
         IN [val |-> t - ss1 >= STATIONARY_SECONDS, ss |-> ss1]
    ELSE [val |-> FALSE, ss |-> None]

\* _is_moving (lines 198-203).
IsMoving(hist, t) == RecentActivity(hist, t) >= ACTIVITY_THRESHOLD

\* _home_ssid_visible (lines 205-214).
HomeSsidVisible(mem, wl) ==
    /\ wl # {}
    /\ \E a \in DOMAIN mem : mem[a].ssid \in wl \/ a \in wl

\* The decision with 10 tracked APs still counted as few.
AutoDecisionLoose10(home, stationary, moving, n) ==
    IF home \/ stationary THEN "recon"
    ELSE IF moving THEN "drive-by"
    ELSE IF n <= AUTO_LOOSE_BELOW THEN "loose" ELSE "strict"

\* The decision of lines 222-226.
AutoDecision(home, stationary, moving, n) ==
    IF home \/ stationary THEN "recon"
    ELSE IF moving THEN "drive-by"
    ELSE IF n < AUTO_LOOSE_BELOW THEN "loose" ELSE "strict"

\* _auto_mode_logic (lines 216-226): the sub-mode, the _stationary_start that
\* _is_stationary leaves, and the four signals the decision was taken on.
AutoModeLogic(mem, wl, hist, ss, t) ==
    LET home == HomeSsidVisible(mem, wl)
        st == IsStationary(hist, ss, t)
        moving == IsMoving(hist, t)
        n == Cardinality(DOMAIN mem)
    IN [sub |-> AutoDecision(home, st.val, moving, n), ss |-> st.ss,
        home |-> home, stationary |-> st.val, moving |-> moving, n |-> n]

-----------------------------------------------------------------------------
(* Snapshot persistence.                                                    *)

NoFile == [state |-> "missing", mode |-> "strict", stationary_start |-> None,
           ap_data |-> EmptyMap]
CorruptFile == [state |-> "corrupt", mode |-> "strict", stationary_start |-> None,
                ap_data |-> EmptyMap]

\* json.dump of the store (line 245), as json.load reads it back: an object's
\* keys are written as strings (a key that is not one is converted), and the
\* numbers and strings at the leaves are written as they are.
JsonKey(k) == IF k \in STRING THEN k ELSE ToString(k)

JsonClients(clients) ==
    [k \in {JsonKey(c) : c \in DOMAIN clients} |->
        clients[CHOOSE c \in DOMAIN clients : JsonKey(c) = k]]

JsonStore(mem) ==
    [k \in {JsonKey(a) : a \in DOMAIN mem} |->
        LET a == CHOOSE x \in DOMAIN mem : JsonKey(x) = k
        IN [mem[a] EXCEPT !.clients = JsonClients(@)]]

\* A save that writes the mode but an empty store.
SaveMemoryNoStore(io, d, m, ss, mem) ==
    CASE io = "ok" -> [state |-> "ok", mode |-> m, stationary_start |-> ss,
                       ap_data |-> EmptyMap]
      [] io = "fail" -> d
      [] OTHER -> [state |-> "corrupt", mode |-> "strict", stationary_start |-> None,
                   ap_data |-> EmptyMap]

\* _save_memory (lines 228-247).  io is what the file system does: "ok", "fail"
\* (open raises, the file is untouched) or "torn" (the write stops part-way and
\* leaves a file that is not JSON).  The exception is caught and logged.
SaveMemory(io, d, m, ss, mem) ==
    CASE io = "ok" -> [state |-> "ok", mode |-> m, stationary_start |-> ss,
                       ap_data |-> JsonStore(mem)]
      [] io = "fail" -> d
      [] OTHER -> CorruptFile

\* The load taking the persisted mode as it is.
LoadMemoryAnyMode(d) ==
    CASE d.state = "ok" ->
            [memory |-> d.ap_data, mode |-> d.mode, ss |-> d.stationary_start]
      [] d.state = "corrupt" -> [memory |-> EmptyMap, mode |-> modes[1], ss |-> None]
      [] OTHER -> [memory |-> EmptyMap, mode |-> modes[1], ss |-> None]

\* _load_memory (lines 249-275): the memory, mode and _stationary_start it
\* leaves in a freshly constructed plugin.
LoadMemory(d) ==
    CASE d.state = "ok" ->
            [memory |-> d.ap_data,
             mode |-> IF d.mode \in Range(modes) THEN d.mode ELSE modes[1],
             ss |-> d.stationary_start]
      [] d.state = "corrupt" -> [memory |-> EmptyMap, mode |-> modes[1], ss |-> None]
      [] OTHER -> [memory |-> EmptyMap, mode |-> modes[1], ss |-> None]

-----------------------------------------------------------------------------
(* on_epoch.                                                                *)

\* The record last_op holds after an epoch.
EpochOp(outcome, policy, res, supported, m, auto, entered, fresh) ==
    [op |-> "epoch", outcome |-> outcome, policy |-> policy, via |-> res.via,
     channel |-> res.channel, supported |-> supported, advances |-> res.advances,
     mode |-> m, sub |-> auto.sub, home |-> auto.home,
     stationary |-> auto.stationary, moving |-> auto.moving, n |-> auto.n,
     entered |-> entered, fresh |-> fresh]

NoAuto == [sub |-> "none", ss |-> None, home |-> FALSE, stationary |-> FALSE,
           moving |-> FALSE, n |-> 0]

\* on_epoch (lines 603-638): every way the call can end, as the values it leaves.
EpochResults(supported, explore, io) ==
    LET idle == Result(0, "none", "none", recon_channel_iterator,
                       recon_channels_tested,
                       [stats |-> channel_stats, dirty |-> memory_is_dirty], 0)
        base == [memory |-> memory, res |-> idle, sub |-> current_auto_submode,
                 ss |-> stationary_start, disk |-> disk, pass_log |-> pass_log,
                 pass_fixed |-> pass_fixed, prev |-> prev_policy,
                 op |-> EpochOp("disabled", "none", idle, supported, mode, NoAuto,
                                FALSE, FALSE)]
        mem1 == CleanupMemory(memory, mode, now)
        swept == [idle EXCEPT !.dirty = TRUE]
        disk1 == SaveMemory(io, disk, mode, stationary_start, mem1)
        auto == IF mode = "auto"
                THEN AutoModeLogic(mem1, home_whitelist, activity_history,
                                   stationary_start, now)
                ELSE [NoAuto EXCEPT !.ss = stationary_start]
        policy == IF mode = "auto" THEN auto.sub ELSE mode
        sub1 == IF mode = "auto" THEN auto.sub ELSE current_auto_submode
        outs == CASE policy = "recon" ->
                        EpochRecon(supported, recon_channel_iterator,
                                   recon_channels_tested, channel_stats, TRUE, mem1)
                  [] policy = "loose" ->
                        EpochLoose(supported, explore, recon_channel_iterator,
                                   recon_channels_tested, channel_stats, TRUE, mem1)
                  [] policy = "drive-by" ->
                        EpochStrict(supported, recon_channel_iterator,
                                    recon_channels_tested, channel_stats, TRUE, mem1,
                                    "drive-by")
                  [] OTHER ->
                        EpochStrict(supported, recon_channel_iterator,
                                    recon_channels_tested, channel_stats, TRUE, mem1,
                                    "strict")
        fresh == recon_channel_iterator.state = "none" \/ recon_channels_tested = <<>>
        logged(res) == IF policy # "recon" THEN pass_log
                       ELSE Append(pass_log,
                                   CASE res.via = "recon-strict" -> 0
                                     [] res.outcome = "set" -> res.channel
                                     [] OTHER -> -1)
        fixed(res) == IF policy # "recon" THEN pass_fixed
                      ELSE pass_fixed /\ res.iter.list = supported
    IN IF ~plugin_enabled THEN {base}
       ELSE IF ~ready
       THEN {[base EXCEPT !.memory = mem1, !.res = swept,
                          !.op = EpochOp("not_ready", "none", swept, supported, mode,
                                         NoAuto, FALSE, FALSE)]}
       ELSE IF supported = <<>>
       THEN {[base EXCEPT !.memory = mem1, !.res = swept, !.disk = disk1,
                          !.op = EpochOp("no_channels", "none", swept, supported, mode,
                                         NoAuto, FALSE, FALSE)]}
       ELSE IF policy = "recon" /\ Len(pass_log) >= MaxPassLog THEN {}
       ELSE {[memory |-> mem1, res |-> res, sub |-> sub1, ss |-> auto.ss,
              disk |-> disk1, pass_log |-> logged(res), pass_fixed |-> fixed(res),
              prev |-> policy,
              op |-> EpochOp(res.outcome, policy, res, supported, mode, auto,
                             prev_policy # "recon", fresh)] : res \in outs}

\* No _cleanup_memory call is in progress.
NoSweep == [pc |-> "idle", expired_aps |-> {}]

\* The AP records and client records of a store, as keys.
Records(mem) ==
    {<<a>> : a \in DOMAIN mem}
        \cup UNION {{<<a, c>> : c \in DOMAIN mem[a].clients} : a \in DOMAIN mem}

\* on_epoch.  last_op also notes the time of the call, how many records its
\* sweep removed, and (prior) how many the sweep of the call just before removed
\* when that call was an epoch at the same time in the same mode, else -1.
OnEpoch(supported, explore, io) ==
    /\ alive
    /\ sweep = NoSweep
    /\ \E r \in EpochResults(supported, explore, io) :
          /\ memory' = r.memory
          /\ channel_stats' = r.res.stats
          /\ memory_is_dirty' = r.res.dirty
          /\ recon_channel_iterator' = r.res.iter
          /\ recon_channels_tested' = r.res.tested
          /\ current_auto_submode' = r.sub
          /\ stationary_start' = r.ss
          /\ disk' = r.disk
          /\ pass_log' = r.pass_log
          /\ pass_fixed' = r.pass_fixed
          /\ prev_policy' = r.prev
          /\ last_op' = r.op @@
                [at |-> now, io |-> io,
                 removed |-> Cardinality(Records(memory) \ Records(r.memory)),
                 prior |-> IF /\ last_op.op = "epoch"
                              /\ last_op.outcome # "disabled"
                              /\ last_op.at = now
                              /\ last_op.mode = mode
                           THEN last_op.removed ELSE -1]
    /\ UNCHANGED <<sweep, now, alive, plugin_enabled, ready, mode, activity_history,
                   home_whitelist, tasks>>

-----------------------------------------------------------------------------
(* The other host callbacks.                                                *)

\* on_wifi_update (lines 414-476).  The executor's queue and the number of scans
\* within one activity window are unbounded; the model stops ingesting scans that
\* would take them past MaxTasks and MaxHistory.  Nothing in the handler catches
\* a KeyError: the call ends where it is raised, before lines 475-476.
OnWifiUpdate(access_points) ==
    /\ alive
    /\ LET st == Ingest(memory, access_points, mode, now)
           queued == [i \in 1..Len(st.marked) |->
                        [ap |-> st.marked[i].ap, client |-> st.marked[i].client,
                         pc |-> "queued"]]
           op == [op |-> "wifi", ran |-> plugin_enabled, mode |-> mode,
                  sub |-> current_auto_submode,
                  threshold |-> AttackScoreThreshold(mode),
                  cooldown |-> AttackCooldown(mode),
                  marked |-> IF plugin_enabled THEN st.marked ELSE <<>>,
                  new |-> IF plugin_enabled THEN st.new ELSE 0,
                  aps |-> access_points,
                  raised |-> plugin_enabled /\ st.raised]
       IN IF ~plugin_enabled
          THEN /\ last_op' = op
               /\ UNCHANGED <<memory, tasks, activity_history, memory_is_dirty>>
          ELSE /\ Len(tasks) + Len(queued) <= MaxTasks
               /\ Len(UpdateActivityHistory(activity_history, st.new, now)) <= MaxHistory
               /\ memory' = st.mem
               /\ tasks' = tasks \o queued
               /\ activity_history' =
                     IF st.raised THEN activity_history
                     ELSE UpdateActivityHistory(activity_history, st.new, now)
               /\ memory_is_dirty' = IF st.raised THEN memory_is_dirty ELSE TRUE
               /\ last_op' = op
    /\ UNCHANGED <<sweep, now, alive, plugin_enabled, ready, mode, channel_stats,
                   recon_channel_iterator, recon_channels_tested, stationary_start,
                   current_auto_submode, home_whitelist, disk, pass_log, pass_fixed,
                   prev_policy>>

\* on_handshake (lines 478-492).
OnHandshake(ap, client) ==
    /\ alive
    /\ Lower(ap) \in DOMAIN memory => memory[Lower(ap)].handshakes < MaxHandshakes
    /\ last_op' = [op |-> "handshake", ran |-> plugin_enabled, ap |-> Lower(ap),
                   client |-> Lower(client)]
    /\ IF ~plugin_enabled
       THEN UNCHANGED <<memory, memory_is_dirty>>
       ELSE /\ memory' = RecordCapture(memory, Lower(ap), Lower(client), now)
            /\ memory_is_dirty' = TRUE
    /\ UNCHANGED <<sweep, now, alive, plugin_enabled, ready, mode, channel_stats,
                   recon_channel_iterator, recon_channels_tested, activity_history,
                   stationary_start, current_auto_submode, home_whitelist, tasks,
                   disk, pass_log, pass_fixed, prev_policy>>

\* The index of a mode in self.modes, and the mode after it (lines 647-651).
ModeIndex(m) == CHOOSE i \in DOMAIN modes : modes[i] = m
\* The rotation skipping a mode.
NextModeSkipping(m) == modes[((ModeIndex(m) + 1) % Len(modes)) + 1]
NextMode(m) == modes[(ModeIndex(m) % Len(modes)) + 1]

\* on_webhook, path 'toggle_mode' (lines 643-663).
ToggleMode(io) ==
    /\ alive
    /\ last_op' = [op |-> "toggle", ran |-> plugin_enabled, old |-> mode]
    /\ IF ~plugin_enabled
       THEN UNCHANGED <<mode, recon_channel_iterator, recon_channels_tested,
                        current_auto_submode, disk, pass_log, pass_fixed, prev_policy>>
       ELSE LET m == NextMode(mode)
            IN /\ mode' = m
               /\ IF m = "recon"
                  THEN /\ recon_channel_iterator' = NoIterator
                       /\ recon_channels_tested' = <<>>
                       /\ pass_log' = <<>>
                       /\ pass_fixed' = TRUE
                  ELSE UNCHANGED <<recon_channel_iterator, recon_channels_tested,
                                   pass_log, pass_fixed>>
               /\ current_auto_submode' = IF m = "auto" THEN "none"
                                          ELSE current_auto_submode
               /\ disk' = SaveMemory(io, disk, m, stationary_start, memory)
               /\ prev_policy' = "none"
    /\ UNCHANGED <<sweep, now, alive, plugin_enabled, ready, memory, channel_stats,
                   memory_is_dirty, activity_history, stationary_start,
                   home_whitelist, tasks>>

\* on_webhook, path '/' (lines 664-859): the dashboard.  It refreshes the stats
\* cache (lines 705-707) and, in mode auto, calls _is_stationary (line 769); the
\* sub-mode it shows is self._current_auto_submode (line 771).
Dashboard ==
    /\ alive
    /\ LET r == RefreshStats(channel_stats, memory_is_dirty, memory)
           st == IsStationary(activity_history, stationary_start, now)
       IN /\ last_op' = [op |-> "dashboard", ran |-> plugin_enabled, mode |-> mode,
                         shown |-> current_auto_submode,
                         ss_before |-> stationary_start]
          /\ IF ~plugin_enabled
             THEN UNCHANGED <<channel_stats, memory_is_dirty, stationary_start>>
             ELSE /\ channel_stats' = r.stats
                  /\ memory_is_dirty' = r.dirty
                  /\ stationary_start' = IF mode = "auto" THEN st.ss
                                         ELSE stationary_start
    /\ UNCHANGED <<sweep, now, alive, plugin_enabled, ready, mode, memory,
                   recon_channel_iterator, recon_channels_tested, activity_history,
                   current_auto_submode, home_whitelist, tasks, disk, pass_log,
                   pass_fixed, prev_policy>>

\* on_ui_update (lines 402-412): the mode text, with the sub-mode in auto.
OnUiUpdate ==
    /\ alive
    /\ last_op' = [op |-> "ui", ran |-> plugin_enabled, mode |-> mode,
                   shown |-> IF mode = "auto" THEN current_auto_submode ELSE "none"]
    /\ UNCHANGED <<sweep, now, alive, plugin_enabled, ready, mode, memory,
                   channel_stats, memory_is_dirty, recon_channel_iterator,
                   recon_channels_tested, activity_history, stationary_start,
                   current_auto_submode, home_whitelist, tasks, disk, pass_log,
                   pass_fixed, prev_policy>>

\* on_ready (lines 376-389).
OnReady ==
    /\ alive
    /\ ~ready
    /\ ready' = plugin_enabled
    /\ last_op' = [op |-> "ready"]
    /\ UNCHANGED <<sweep, now, alive, plugin_enabled, mode, memory, channel_stats,
                   memory_is_dirty, recon_channel_iterator, recon_channels_tested,
                   activity_history, stationary_start, current_auto_submode,
                   home_whitelist, tasks, disk, pass_log, pass_fixed, prev_policy>>

\* on_unload (lines 370-374): the snapshot is saved and the executor is shut down
\* without waiting; work already submitted still runs.
OnUnload(io) ==
    /\ alive
    /\ alive' = FALSE
    /\ disk' = SaveMemory(io, disk, mode, stationary_start, memory)
    /\ last_op' = [op |-> "unload", io |-> io]
    /\ UNCHANGED <<sweep, now, plugin_enabled, ready, mode, memory, channel_stats,
                   memory_is_dirty, recon_channel_iterator, recon_channels_tested,
                   activity_history, stationary_start, current_auto_submode,
                   home_whitelist, tasks, pass_log, pass_fixed, prev_policy>>

\* __init__ (lines 47-83) followed by on_loaded (lines 362-368) in a new process,
\* once the old one has gone (its worker pool drained).  The configuration file
\* is the same, so plugin_enabled and home_whitelist are what they were.
Start ==
    /\ ~alive
    /\ tasks = <<>>
    /\ LET l == LoadMemory(disk)
       IN /\ memory' = l.memory
          /\ mode' = l.mode
          /\ stationary_start' = l.ss
    /\ alive' = TRUE
    /\ ready' = FALSE
    /\ channel_stats' = EmptyMap
    /\ memory_is_dirty' = TRUE
    /\ recon_channel_iterator' = NoIterator
    /\ recon_channels_tested' = <<>>
    /\ activity_history' = <<>>
    /\ current_auto_submode' = "none"
    /\ pass_log' = <<>>
    /\ pass_fixed' = TRUE
    /\ prev_policy' = "none"
    /\ last_op' = [op |-> "start"]
    /\ UNCHANGED <<sweep, now, plugin_enabled, home_whitelist, tasks, disk>>

\* The clock moves on by d seconds, up to StartTime + horizon.
Tick(d, horizon) ==
    /\ now + d <= StartTime + horizon
    /\ now' = now + d
    /\ last_op' = [op |-> "tick"]
    /\ UNCHANGED <<sweep, alive, plugin_enabled, ready, mode, memory, channel_stats,
                   memory_is_dirty, recon_channel_iterator, recon_channels_tested,
                   activity_history, stationary_start, current_auto_submode,
                   home_whitelist, tasks, disk, pass_log, pass_fixed, prev_policy>>

-----------------------------------------------------------------------------
(* The worker pool: _execute_attack runs on a pool thread.                  *)

\* The guards of _execute_attack (lines 321-331): whether the work item goes on
\* to the attack, and the _stationary_start its call of _auto_mode_logic leaves.
ExecuteAttackGuards ==
    LET auto == AutoModeLogic(memory, home_whitelist, activity_history,
                              stationary_start, now)
    IN IF ~plugin_enabled THEN [go |-> FALSE, ss |-> stationary_start]
       ELSE IF mode = "auto"
       THEN [go |-> auto.sub # "recon", ss |-> auto.ss]
       ELSE [go |-> mode # "recon", ss |-> stationary_start]

\* A pool thread takes work item i (one of the first MAX_WORKERS submitted) and
\* runs the guards.
AttackCheck(i) ==
    /\ i \in 1..Min(Len(tasks), MAX_WORKERS)
    /\ tasks[i].pc = "queued"
    /\ LET g == ExecuteAttackGuards
       IN /\ stationary_start' = g.ss
          /\ tasks' = IF g.go THEN [tasks EXCEPT ![i].pc = "go"]
                      ELSE RemoveAt(tasks, i)
          /\ last_op' = [op |-> "check", ap |-> tasks[i].ap,
                         client |-> tasks[i].client, go |-> g.go]
    /\ UNCHANGED <<sweep, now, alive, plugin_enabled, ready, mode, memory, channel_stats,
                   memory_is_dirty, recon_channel_iterator, recon_channels_tested,
                   activity_history, current_auto_submode, home_whitelist, disk,
                   pass_log, pass_fixed, prev_policy>>

\* The thread reaches the attack itself (lines 333-335).
AttackAct(i) ==
    /\ i \in 1..Min(Len(tasks), MAX_WORKERS)
    /\ tasks[i].pc = "go"
    /\ tasks' = RemoveAt(tasks, i)
    /\ last_op' = [op |-> "attack", ap |-> tasks[i].ap, client |-> tasks[i].client,
                   mode |-> mode, sub |-> current_auto_submode,
                   enabled |-> plugin_enabled]
    /\ UNCHANGED <<sweep, now, alive, plugin_enabled, ready, mode, memory, channel_stats,
                   memory_is_dirty, recon_channel_iterator, recon_channels_tested,
                   activity_history, stationary_start, current_auto_submode,
                   home_whitelist, disk, pass_log, pass_fixed, prev_policy>>

-----------------------------------------------------------------------------
(* The state after construction and on_loaded.                              *)

\* __init__ (lines 47-83) and on_loaded (lines 362-368) reading one of files.
InitFrom(whitelists, enabled, files) ==
    /\ now = StartTime
    /\ alive = TRUE
    /\ plugin_enabled \in enabled
    /\ ready = FALSE
    /\ disk \in files
    /\ mode = LoadMemory(disk).mode
    /\ memory = LoadMemory(disk).memory
    /\ stationary_start = LoadMemory(disk).ss
    /\ channel_stats = EmptyMap
    /\ memory_is_dirty = TRUE
    /\ recon_channel_iterator = NoIterator
    /\ recon_channels_tested = <<>>
    /\ activity_history = <<>>
    /\ current_auto_submode = "none"
    /\ home_whitelist \in whitelists
    /\ tasks = <<>>
    /\ sweep = NoSweep
    /\ last_op = [op |-> "init"]
    /\ pass_log = <<>>
    /\ pass_fixed = TRUE
    /\ prev_policy = "none"

\* The same with no snapshot file.
InitWith(whitelists, enabled) == InitFrom(whitelists, enabled, {NoFile})

-----------------------------------------------------------------------------
(* Channel selection under a host whose supported-channel list may change:  *)
(* epochs, scans of two networks, mode toggles and restarts.                *)

\* The supported-channel lists the host reports.
ReconLists == {<<1, 6>>, <<1, 11>>, <<1, 6, 11>>, <<6, 6>>}

\* The home network on channel 1 with one weak client.
ScanHome == <<[mac |-> "AA:01", hostname |-> "home", channel |-> 1,
               clients |-> <<[mac |-> "cc:01", rssi |-> -90]>>]>>

InitRecon == InitWith({{"home"}}, {TRUE})

NextRecon ==
    \/ \E s \in ReconLists, e \in BOOLEAN : OnEpoch(s, e, "ok")
    \/ OnWifiUpdate(ScanHome)
    \/ ToggleMode("ok")
    \/ OnReady
    \/ OnUnload("ok")
    \/ Start

SpecRecon == InitRecon /\ [][NextRecon]_vars

NoDuplicates(s) == \A i, j \in DOMAIN s : i # j => s[i] # s[j]

\* C1: every channel on_epoch passes to set_channel is a member of the
\* supported-channel list of that same epoch, in every mode.
C1_ChannelIsSupported ==
    (last_op.op = "epoch" /\ last_op.outcome = "set")
        => last_op.channel \in Range(last_op.supported)

\* C2: from a reset cursor, with a fixed list of n distinct supported channels,
\* the first n recon calls tune n pairwise-distinct channels that cover the
\* list, the visited set is exactly what they tuned, and every later call (and
\* no earlier one) is delegated to Strict.  pass_log holds, per recon call since
\* the reset, the channel the sweep tuned, or 0 for a call delegated to Strict.
C2_ReconPass ==
    (/\ recon_channel_iterator.state = "live"
     /\ pass_fixed
     /\ NoDuplicates(recon_channel_iterator.list))
        => LET list == recon_channel_iterator.list
               n == Len(list)
               k == Len(pass_log)
               m == Min(k, n)
           IN /\ \A i \in 1..m : pass_log[i] \in Range(list)
              /\ \A i, j \in 1..m : i # j => pass_log[i] # pass_log[j]
              /\ k >= n => {pass_log[i] : i \in 1..n} = Range(list)
              /\ \A i \in (n + 1)..k : pass_log[i] = 0
              /\ recon_channels_tested = SubSeq(pass_log, 1, m)

\* C2's case: a full pass over two channels followed by a delegated call.
C2_Witness ==
    /\ recon_channel_iterator.state = "live"
    /\ pass_fixed
    /\ recon_channel_iterator.list = <<1, 11>>
    /\ Len(pass_log) = 3
    /\ last_op.op = "epoch"
    /\ last_op.via = "recon-strict"

\* C3: every call of the recon policy with a non-empty supported list tunes
\* exactly one channel after advancing the cursor at most len(supported) times.
C3_ReconTerminates ==
    (last_op.op = "epoch" /\ last_op.policy = "recon")
        => /\ last_op.outcome = "set"
           /\ last_op.advances <= Len(last_op.supported)

\* C4: the first recon call after recon is entered (by a toggle, by a restart
\* with the persisted mode, or by auto's sub-mode becoming recon after another
\* policy ran) sees an empty visited set.
C4_ResetOnEntry ==
    (last_op.op = "epoch" /\ last_op.policy = "recon" /\ last_op.entered)
        => last_op.fresh

-----------------------------------------------------------------------------
(* The attack gate: scans of one network with a strong or a middling client, *)
(* mode toggles, the clock and the worker pool.                              *)

\* The home network with a client at -40 dBm (score 60).
ScanStrong == <<[mac |-> "AA:01", hostname |-> "home", channel |-> 1,
                 clients |-> <<[mac |-> "cc:01", rssi |-> -40]>>]>>
\* The same access point under another name, its client listed twice in the
\* scan at -70 dBm (score 30).
ScanMiddling == <<[mac |-> "aa:01", hostname |-> "cafe", channel |-> 6,
                   clients |-> <<[mac |-> "CC:01", rssi |-> -70],
                                 [mac |-> "cc:01", rssi |-> -70]>>]>>

InitGate == InitWith({{"home"}}, {TRUE})

NextGate ==
    \/ \E a \in {ScanStrong, ScanMiddling} : OnWifiUpdate(a)
    \/ ToggleMode("ok")
    \/ \E d \in {150, 301} : Tick(d, GateHorizon)
    \/ \E i \in 1..MaxTasks : AttackCheck(i)
    \/ \E i \in 1..MaxTasks : AttackAct(i)

SpecGate == InitGate /\ [][NextGate]_vars

\* The effective mode is recon, or the plugin is disabled.
Suppressed(enabled, m, sub) ==
    \/ ~enabled
    \/ m = "recon"
    \/ m = "auto" /\ sub = "recon"

\* C6: no attack action is executed while the effective mode is recon (mode
\* recon, or mode auto with the epoch's derived sub-mode recon) or while the
\* plugin is disabled.
C6_NoAttackWhileSuppressed ==
    last_op.op = "attack" => ~Suppressed(last_op.enabled, last_op.mode, last_op.sub)

\* C7: while the gate is suppressed, ingestion marks no attempt and dispatches
\* nothing.
C7_NoAttemptWhileSuppressed ==
    (last_op.op = "wifi" /\ Suppressed(last_op.ran, last_op.mode, last_op.sub))
        => last_op.marked = <<>>

\* The last-attempt stamp of client c of access point a in store mem (0, the
\* stamp a record is created with, when there is no such record).
LastAttempt(mem, a, c) ==
    IF a \in DOMAIN mem /\ c \in DOMAIN mem[a].clients
    THEN mem[a].clients[c].last_attempt ELSE 0

\* Whether the scan lists client c under access point a.
Observed(aps, a, c) ==
    \E i \in DOMAIN aps :
        /\ Lower(aps[i].mac) = a
        /\ \E j \in DOMAIN aps[i].clients : Lower(aps[i].clients[j].mac) = c

\* C8: an ingest marks an attempt for a client (last-attempt := now, one attack
\* action dispatched) exactly when the client is in the scan, its score is >=
\* the mode's threshold and now - last-attempt is strictly greater than the
\* mode's cooldown; so two attempts on one record are more than the cooldown
\* apart and a client is marked at most once per ingest.
C8_GateExact ==
    [][(last_op'.op = "wifi" /\ last_op'.ran) =>
        LET thr == IF mode = "drive-by" THEN 20 ELSE 50
            cd == IF mode = "drive-by" THEN 60 ELSE 300
            marked == last_op'.marked
        IN /\ \A a \in DOMAIN memory' : \A c \in DOMAIN memory'[a].clients :
                LET before == LastAttempt(memory, a, c)
                    after == memory'[a].clients[c]
                    hits == Cardinality({i \in DOMAIN marked :
                                            marked[i].ap = a /\ marked[i].client = c})
                IN IF /\ Observed(last_op'.aps, a, c)
                      /\ after.score >= thr * ScoreScale
                      /\ now - before > cd
                   THEN after.last_attempt = now /\ hits = 1
                   ELSE after.last_attempt = before /\ hits = 0
           /\ Len(tasks') = Len(tasks) + Len(marked)
           /\ \A i \in DOMAIN marked :
                tasks'[Len(tasks) + i] =
                    [ap |-> marked[i].ap, client |-> marked[i].client, pc |-> "queued"]
      ]_vars

\* C8's case: a second attempt on a client record that was attempted before.
C8_Witness ==
    /\ last_op.op = "wifi"
    /\ \E i \in DOMAIN last_op.marked :
          /\ last_op.marked[i].prev >= StartTime
          /\ memory[last_op.marked[i].ap].clients[last_op.marked[i].client].last_attempt
                = now

-----------------------------------------------------------------------------
(* The auto meta-policy: scans that discover up to eleven networks, epochs, *)
(* mode toggles and a clock that can clear the activity window or reach     *)
(* STATIONARY_SECONDS.                                                      *)

Bare(m) == [mac |-> m, hostname |-> "street", channel |-> 1, clients |-> <<>>]

ScanA == <<Bare("a1"), Bare("a2"), Bare("a3"), Bare("a4"), Bare("a5")>>
ScanB == <<Bare("b1"), Bare("b2"), Bare("b3"), Bare("b4"), Bare("b5")>>
\* The home network with a client at -70 dBm (score 30).
ScanHome30 == <<[mac |-> "aa:01", hostname |-> "home", channel |-> 1,
                 clients |-> <<[mac |-> "cc:01", rssi |-> -70]>>]>>

\* The snapshot an earlier run left after the mode was toggled to auto.
AutoFile == [state |-> "ok", mode |-> "auto", stationary_start |-> None,
             ap_data |-> EmptyMap]

InitAuto == InitFrom({{"home"}}, {TRUE}, {AutoFile})

NextAuto ==
    \/ \E a \in {ScanA, ScanB, ScanHome30} : OnWifiUpdate(a)
    \/ OnEpoch(<<1>>, FALSE, "ok")
    \/ OnReady
    \/ \E d \in {2000, 3600} : Tick(d, AutoHorizon)

SpecAuto == InitAuto /\ [][NextAuto]_vars

\* C5: the sub-mode an auto epoch derives is decided by (home-visible,
\* stationary, moving, tracked-AP count) in this priority: home-visible or
\* stationary gives recon; otherwise moving gives drive-by; otherwise fewer
\* than 10 tracked APs gives loose; otherwise strict.  The four signals are
\* read off the state the epoch leaves.
C5_AutoPriority ==
    (last_op.op = "epoch" /\ last_op.mode = "auto" /\ last_op.policy # "none")
        => LET activity == RecentActivity(activity_history, now)
               home == \E a \in DOMAIN memory :
                          memory[a].ssid \in home_whitelist \/ a \in home_whitelist
               stationary == /\ activity < 5
                             /\ stationary_start # None
                             /\ now - stationary_start >= 3600
               moving == activity >= 5
               n == Cardinality(DOMAIN memory)
               expected == IF home \/ stationary THEN "recon"
                           ELSE IF moving THEN "drive-by"
                           ELSE IF n < 10 THEN "loose"
                           ELSE "strict"
           IN /\ last_op.policy = expected
              /\ current_auto_submode = expected

\* C5's case: exactly 10 tracked APs and no other signal give strict.
C5_Witness ==
    /\ last_op.op = "epoch"
    /\ last_op.mode = "auto"
    /\ Cardinality(DOMAIN memory) = 10
    /\ current_auto_submode = "strict"

\* C9: the gate uses the drive-by threshold (20) and cooldown (60 s) whenever
\* the effective mode is drive-by (mode drive-by, or mode auto with the derived
\* sub-mode drive-by) and the defaults (50, 300 s) otherwise; so in effective
\* drive-by a client just seen with score >= 20 and never attempted is marked.
C9_DriveByGate ==
    (last_op.op = "wifi" /\ last_op.ran)
        => LET driveby == \/ last_op.mode = "drive-by"
                          \/ last_op.mode = "auto" /\ last_op.sub = "drive-by"
           IN /\ last_op.threshold = (IF driveby THEN 20 ELSE 50)
              /\ last_op.cooldown = (IF driveby THEN 60 ELSE 300)
              /\ driveby =>
                    \A a \in DOMAIN memory : \A c \in DOMAIN memory[a].clients :
                        (/\ Observed(last_op.aps, a, c)
                         /\ memory[a].clients[c].score >= 20 * ScoreScale)
                            => memory[a].clients[c].last_attempt # 0

-----------------------------------------------------------------------------
(* The store under scans, captures, epochs and the clock.                   *)

\* The home network with a client at -60 dBm (score 40).
ScanForty == <<[mac |-> "AA:01", hostname |-> "home", channel |-> 1,
                clients |-> <<[mac |-> "cc:01", rssi |-> -60]>>]>>

\* A second access point sighted twice in one scan, its MAC spelled in both
\* cases, last as "cafe" on channel 11 with one client listed at -80 dBm and
\* again at -70 dBm.
ScanTwice == <<[mac |-> "AA:02", hostname |-> "guest", channel |-> 6,
                clients |-> <<>>],
               [mac |-> "aa:02", hostname |-> "cafe", channel |-> 11,
                clients |-> <<[mac |-> "CC:01", rssi |-> -80],
                              [mac |-> "cc:01", rssi |-> -70]>>]>>

\* The access points and clients that captures are reported for.
CaptureAPs == {"AA:01", "aa:09"}
CaptureClients == {"cc:01", "cc:09"}

InitStore == InitWith({{"home"}}, {TRUE})

NextStore ==
    \/ \E a \in {ScanForty, ScanTwice} : OnWifiUpdate(a)
    \/ \E a \in CaptureAPs, c \in CaptureClients : OnHandshake(a, c)
    \/ OnEpoch(<<1, 6>>, FALSE, "ok")
    \/ OnReady
    \/ \E d \in {150, 301} : Tick(d, GateHorizon)

SpecStore == InitStore /\ [][NextStore]_vars

\* C10: a capture reported for an unknown AP, or for a tracked AP and a MAC
\* that is not one of its clients, leaves the store as it was: the AP's
\* handshake counter, every client record and the derived channel statistics
\* are unchanged.
C10_UnknownCaptureIsNoOp ==
    [][(/\ last_op'.op = "handshake"
        /\ last_op'.ran
        /\ ~(/\ last_op'.ap \in DOMAIN memory
             /\ last_op'.client \in DOMAIN memory[last_op'.ap].clients))
          => /\ memory' = memory
             /\ GetChannelStats(memory') = GetChannelStats(memory)]_vars

\* C11: a capture for a tracked AP and one of its clients adds exactly 1 to
\* that AP's handshake counter, sets the client's last_success to now and
\* stores the client's recomputed score, success bonus of 50 included (40
\* becomes 90); nothing else in the store changes.
C11_CaptureRecorded ==
    [][(/\ last_op'.op = "handshake"
        /\ last_op'.ran
        /\ last_op'.ap \in DOMAIN memory
        /\ last_op'.client \in DOMAIN memory[last_op'.ap].clients)
          => LET a == last_op'.ap
                 c == last_op'.client
                 old == memory[a].clients[c]
                 fresh == (old.signal + 100) * ScoreScale - (now - old.last_seen)
             IN /\ DOMAIN memory' = DOMAIN memory
                /\ \A x \in DOMAIN memory \ {a} : memory'[x] = memory[x]
                /\ memory'[a] = [memory[a] EXCEPT
                                   !.handshakes = memory[a].handshakes + 1,
                                   !.clients = memory'[a].clients]
                /\ DOMAIN memory'[a].clients = DOMAIN memory[a].clients
                /\ \A y \in DOMAIN memory[a].clients \ {c} :
                      memory'[a].clients[y] = memory[a].clients[y]
                /\ memory'[a].clients[c] =
                      [old EXCEPT !.last_success = now,
                                  !.score = Max(0, fresh + 50 * ScoreScale)]
                /\ old.score = 40 * ScoreScale /\ fresh = old.score
                      => memory'[a].clients[c].score = 90 * ScoreScale]_vars

\* C11's case: a client just seen at -60 dBm (score 40) right after its capture.
C11_Witness ==
    /\ last_op.op = "handshake"
    /\ last_op.ran
    /\ last_op.ap \in DOMAIN memory
    /\ last_op.client \in DOMAIN memory[last_op.ap].clients
    /\ LET r == memory[last_op.ap].clients[last_op.client]
       IN /\ r.signal = -60
          /\ r.last_seen = now
          /\ r.last_success = now
          /\ r.score = 90 * ScoreScale
    /\ memory[last_op.ap].handshakes = 1

\* The last sighting in aps of the AP keyed k, and of its client keyed c.
LatestAP(aps, k) ==
    aps[CHOOSE i \in DOMAIN aps :
            /\ Lower(aps[i].mac) = k
            /\ \A j \in DOMAIN aps : Lower(aps[j].mac) = k => j <= i]

LatestClient(aps, k, c) ==
    LET seen == UNION {{<<i, j>> : j \in {x \in DOMAIN aps[i].clients :
                                           Lower(aps[i].clients[x].mac) = c}} :
                       i \in {x \in DOMAIN aps : Lower(aps[x].mac) = k}}
        at == CHOOSE p \in seen :
                 \A q \in seen : q[1] < p[1] \/ (q[1] = p[1] /\ q[2] <= p[2])
    IN aps[at[1]].clients[at[2]]

\* C12: on_wifi_update upserts.  After the call the store's keys are the old
\* keys and the lowercased MACs of the observed APs (spellings that differ in
\* case share one record); each observed AP's record carries the name, channel
\* and last-seen of its latest sighting; each observed client has a record under
\* its AP with last-seen and signal refreshed; and the count handed to the
\* activity history is the number of observed keys absent before the call.
C12_Upsert ==
    [][(last_op'.op = "wifi" /\ last_op'.ran)
          => LET aps == last_op'.aps
                 keys == {Lower(aps[i].mac) : i \in DOMAIN aps}
             IN /\ DOMAIN memory' = DOMAIN memory \cup keys
                /\ \A k \in keys :
                      /\ memory'[k].ssid = LatestAP(aps, k).hostname
                      /\ memory'[k].channel = LatestAP(aps, k).channel
                      /\ memory'[k].last_seen = now
                      /\ \A i \in DOMAIN aps : \A j \in DOMAIN aps[i].clients :
                            Lower(aps[i].mac) = k =>
                               LET c == Lower(aps[i].clients[j].mac)
                               IN /\ c \in DOMAIN memory'[k].clients
                                  /\ memory'[k].clients[c].last_seen = now
                                  /\ memory'[k].clients[c].signal =
                                        LatestClient(aps, k, c).rssi
                /\ activity_history' # <<>>
                /\ activity_history'[Len(activity_history')] =
                      [t |-> now, count |-> Cardinality(keys \ DOMAIN memory)]]_vars

\* C12's case: one scan sights a new AP under two spellings of its MAC.
C12_Witness ==
    /\ last_op.op = "wifi"
    /\ last_op.ran
    /\ last_op.aps = ScanTwice
    /\ last_op.new = 1
    /\ "aa:02" \in DOMAIN memory
    /\ "AA:02" \notin DOMAIN memory
    /\ memory["aa:02"].ssid = "cafe"
    /\ memory["aa:02"].channel = 11

-----------------------------------------------------------------------------
(* Scans with a partial entry between two complete ones.                    *)

GoodFirst == [mac |-> "aa:01", hostname |-> "home", channel |-> 1,
              clients |-> <<[mac |-> "cc:01", rssi |-> -60]>>]
GoodLast == [mac |-> "aa:02", hostname |-> "cafe", channel |-> 6,
             clients |-> <<[mac |-> "cc:02", rssi |-> -110]>>]

\* An access point entry with one field missing, or with a client entry that
\* has one field missing.
PartialEntries ==
    {[hostname |-> "x", channel |-> 11, clients |-> <<>>],
     [mac |-> "aa:03", channel |-> 11, clients |-> <<>>],
     [mac |-> "aa:03", hostname |-> "x", clients |-> <<>>],
     [mac |-> "aa:03", hostname |-> "x", channel |-> 11],
     [mac |-> "aa:03", hostname |-> "x", channel |-> 11,
      clients |-> <<[mac |-> "cc:03"]>>],
     [mac |-> "aa:03", hostname |-> "x", channel |-> 11,
      clients |-> <<[rssi |-> -50]>>]}

PartialScans ==
    {<<GoodLast>>, <<GoodFirst, GoodLast>>}
        \cup {<<GoodFirst, x, GoodLast>> : x \in PartialEntries}

InitPartial == InitWith({{"home"}}, {TRUE})

NextPartial ==
    \/ \E a \in PartialScans : OnWifiUpdate(a)
    \/ OnEpoch(<<1, 6>>, FALSE, "ok")
    \/ OnReady
    \/ \E d \in {150, 301} : Tick(d, GateHorizon)

SpecPartial == InitPartial /\ [][NextPartial]_vars

\* An access point entry that has all its fields.
Complete(ap) ==
    /\ Has(ap, "mac") /\ Has(ap, "hostname") /\ Has(ap, "channel") /\ Has(ap, "clients")
    /\ \A j \in DOMAIN ap.clients : Has(ap.clients[j], "mac") /\ Has(ap.clients[j], "rssi")

\* C13: on_wifi_update never fails on a partial observation: the call does not
\* raise, every complete entry of the scan (before or after a partial one) is
\* ingested, the activity history receives the scan's new-AP count and the
\* dirty flag is set.
C13_PartialSkipped ==
    (last_op.op = "wifi" /\ last_op.ran)
        => /\ ~last_op.raised
           /\ \A i \in DOMAIN last_op.aps :
                 Complete(last_op.aps[i]) =>
                    /\ Lower(last_op.aps[i].mac) \in DOMAIN memory
                    /\ memory[Lower(last_op.aps[i].mac)].last_seen = now
           /\ activity_history # <<>>
           /\ activity_history[Len(activity_history)] =
                 [t |-> now, count |-> last_op.new]
           /\ memory_is_dirty

-----------------------------------------------------------------------------
(* Expiry: scans, captures, the sweep of epochs before on_ready, and a      *)
(* clock that steps to the client and AP TTLs and one second past them, in  *)
(* the default and the drive-by mode.                                       *)

\* The snapshot an earlier run left after the mode was toggled to drive-by.
DriveByFile == [state |-> "ok", mode |-> "drive-by", stationary_start |-> None,
                ap_data |-> EmptyMap]

InitExpire == InitFrom({{"home"}}, {TRUE}, {NoFile, DriveByFile})

NextExpire ==
    \/ \E a \in {<<GoodFirst, GoodLast>>, <<GoodLast>>} : OnWifiUpdate(a)
    \/ OnEpoch(<<1, 6>>, FALSE, "ok")
    \/ OnHandshake("aa:01", "cc:01")
    \/ \E d \in {900, 901} : Tick(d, DriveByHorizon)
    \/ \E d \in {86400, 86401} : Tick(d, ExpireHorizon)

SpecExpire == InitExpire /\ [][NextExpire]_vars

\* C14: after the sweep of an epoch the store holds exactly the APs whose
\* last-seen age was at most the AP TTL and, in each, exactly the clients whose
\* last-seen age was at most the client TTL (1800 s and 900 s in mode drive-by,
\* 48 h and 24 h otherwise); a client past its TTL goes although its AP stays,
\* and every surviving record keeps all its fields.
C14_ExpireExact ==
    [][(last_op'.op = "epoch" /\ last_op'.outcome # "disabled")
          => LET ap_ttl == IF mode = "drive-by" THEN 1800 ELSE 172800
                 client_ttl == IF mode = "drive-by" THEN 900 ELSE 86400
             IN /\ DOMAIN memory' = {a \in DOMAIN memory :
                                        now - memory[a].last_seen <= ap_ttl}
                /\ \A a \in DOMAIN memory' :
                      /\ DOMAIN memory'[a].clients =
                            {c \in DOMAIN memory[a].clients :
                                now - memory[a].clients[c].last_seen <= client_ttl}
                      /\ \A c \in DOMAIN memory'[a].clients :
                            memory'[a].clients[c] = memory[a].clients[c]
                      /\ memory'[a] = [memory[a] EXCEPT !.clients = memory'[a].clients]]_vars

\* C14's case: a sweep has just removed a client whose AP it kept, handshake
\* count included.
C14_Witness ==
    /\ last_op.op = "epoch"
    /\ last_op.removed = 1
    /\ "aa:01" \in DOMAIN memory
    /\ memory["aa:01"].clients = EmptyMap
    /\ memory["aa:01"].handshakes = 1
    /\ now - memory["aa:01"].last_seen > 900

\* C15: expiry is idempotent: an epoch's sweep run right after another at the
\* same time in the same mode removes nothing and leaves the store as the
\* first sweep left it.
C15_ExpireIdempotent ==
    [][(last_op'.op = "epoch" /\ last_op'.prior >= 0)
          => /\ memory' = memory
             /\ last_op'.removed = 0]_vars

\* C15's case: a sweep that removed records is followed at once by another.
C15_Witness ==
    /\ last_op.op = "epoch"
    /\ last_op.prior > 0
    /\ last_op.at = now
    /\ last_op.removed = 0

\* Idle times, in seconds, at which the score function is compared.
IdleSteps == {0, 1, 900, 3600, 28800, 86400}

\* C16: a client's score is never negative, and for a fixed signal and a fixed
\* success-bonus status it does not grow with the time since last-seen: it is
\* max(0, (signal + 100) + (50 if the last success is within the bonus window)
\* - 5 per idle hour), here in 1/ScoreScale points (one unit per idle second).
C16_ScoreShape ==
    \A a \in DOMAIN memory : \A c \in DOMAIN memory[a].clients :
        LET r == memory[a].clients[c]
            idle(d) == [r EXCEPT !.last_seen = now - d]
            bonus == IF r.last_success > now - 1800 THEN 50 * ScoreScale ELSE 0
        IN /\ r.score >= 0
           /\ \A d \in IdleSteps :
                 /\ RecalculateClientScore(idle(d), now) >= 0
                 /\ RecalculateClientScore(idle(d), now) =
                       Max(0, (r.signal + 100) * ScoreScale + bonus - d)
           /\ \A d1, d2 \in IdleSteps :
                 d1 <= d2 => RecalculateClientScore(idle(d1), now)
                                >= RecalculateClientScore(idle(d2), now)

\* C16's case: a capture recomputes the score of a client idle for so long that
\* signal and bonus minus decay is below zero, and stores 0.
C16_Witness ==
    /\ last_op.op = "handshake"
    /\ \E a \in DOMAIN memory : \E c \in DOMAIN memory[a].clients :
          LET r == memory[a].clients[c]
          IN /\ r.last_success = now
             /\ (r.signal + 100 + 50) * ScoreScale - (now - r.last_seen) < 0
             /\ r.score = 0

\* C17: score throttling is only an optimization: after every ingest the score
\* the gate used for an observed client (the stored one) equals a fresh
\* recomputation from the client's signal, last-seen and last-success, so that
\* no client whose fresh score and cooldown open the gate is left unmarked.
C17_ThrottleIsOptimization ==
    (last_op.op = "wifi" /\ last_op.ran)
        => \A a \in DOMAIN memory : \A c \in DOMAIN memory[a].clients :
              Observed(last_op.aps, a, c) =>
                 LET r == memory[a].clients[c]
                     fresh == RecalculateClientScore(r, now)
                 IN /\ r.score = fresh
                    /\ r.last_attempt = now
                          \/ ~GateOpen(fresh, r.last_attempt, last_op.mode, now)

-----------------------------------------------------------------------------
(* The ingestion path running while the epoch path is inside                *)
(* _cleanup_memory.  The host runs each callback on its own thread and the  *)
(* plugin takes no lock, so a scan or a capture can be handled between any  *)
(* two statements of the sweep.  on_epoch is taken before on_ready, where   *)
(* it returns right after the sweep (lines 608-610).                        *)

\* on_epoch up to line 288 of _cleanup_memory: expired_aps has been computed.
CleanupBegin ==
    /\ alive
    /\ plugin_enabled
    /\ ~ready
    /\ sweep = NoSweep
    /\ memory_is_dirty' = TRUE
    /\ sweep' = [pc |-> "deleting",
                 expired_aps |-> {a \in DOMAIN memory :
                                     now - memory[a].last_seen > ApExpiry(mode)}]
    /\ last_op' = [op |-> "sweep_begin"]
    /\ UNCHANGED <<now, alive, plugin_enabled, ready, mode, memory, channel_stats,
                   recon_channel_iterator, recon_channels_tested, activity_history,
                   stationary_start, current_auto_submode, home_whitelist, tasks,
                   disk, pass_log, pass_fixed, prev_policy>>

\* Lines 289-301: the deletions, of the APs listed in expired_aps that are
\* still in the store and then of the expired clients of the APs that remain.
CleanupEnd ==
    /\ alive
    /\ sweep.pc = "deleting"
    /\ LET kept == Without(memory, sweep.expired_aps)
       IN memory' =
            [a \in DOMAIN kept |->
               LET cl == kept[a].clients
                   expired_clients == {c \in DOMAIN cl :
                                          now - cl[c].last_seen > ClientExpiry(mode)}
               IN [kept[a] EXCEPT !.clients = Without(cl, expired_clients)]]
    /\ sweep' = NoSweep
    /\ last_op' = [op |-> "sweep", expired_aps |-> sweep.expired_aps]
    /\ UNCHANGED <<now, alive, plugin_enabled, ready, mode, channel_stats,
                   memory_is_dirty, recon_channel_iterator, recon_channels_tested,
                   activity_history, stationary_start, current_auto_submode,
                   home_whitelist, tasks, disk, pass_log, pass_fixed, prev_policy>>

InitRace == InitFrom({{"home"}}, {TRUE}, {DriveByFile})

NextRace ==
    \/ \E a \in {<<GoodLast>>, <<GoodFirst, GoodLast>>} : OnWifiUpdate(a)
    \/ OnHandshake("aa:02", "cc:02")
    \/ CleanupBegin
    \/ CleanupEnd
    \/ \E d \in {900, 901} : Tick(d, DriveByHorizon)

SpecRace == InitRace /\ [][NextRace]_vars

\* C18: the ingestion path and the epoch's sweep serialize their access to the
\* store, so the store is always one that some one-at-a-time order would leave:
\* a sweep never deletes an AP record that, when it is deleted, is within its
\* TTL, and so no upsert, handshake count or attempt stamp made by a scan or a
\* capture is lost.
C18_Serialized ==
    [][last_op'.op = "sweep"
          => \A a \in DOMAIN memory :
                now - memory[a].last_seen <= ApExpiry(mode)
                   => /\ a \in DOMAIN memory'
                      /\ memory'[a].handshakes = memory[a].handshakes
                      /\ memory'[a].last_seen = memory[a].last_seen]_vars

-----------------------------------------------------------------------------
(* Mode rotation and the snapshot file: toggles, unloads and restarts with  *)
(* a file system that can fail, starting from any kind of file, with the    *)
(* plugin enabled or disabled in its configuration.                         *)

\* A snapshot whose current_mode is not one of self.modes.
OddModeFile == [state |-> "ok", mode |-> "turbo", stationary_start |-> None,
                ap_data |-> EmptyMap]

InitModes == InitFrom({{"home"}}, BOOLEAN, {NoFile, CorruptFile, OddModeFile})

NextModes ==
    \/ \E io \in {"ok", "fail", "torn"} : ToggleMode(io)
    \/ OnWifiUpdate(<<GoodLast>>)
    \/ \E io \in {"ok", "fail", "torn"} : OnUnload(io)
    \/ Start

SpecModes == InitModes /\ [][NextModes]_vars

\* C19: the mode is always one of the five values; a toggle moves it to its
\* successor in strict -> loose -> drive-by -> recon -> auto -> strict, so that
\* five toggles in a row return to the starting mode; a toggle while the plugin
\* is disabled leaves the mode unchanged.
C19_ModeRotation ==
    [][/\ mode' \in {"strict", "loose", "drive-by", "recon", "auto"}
       /\ (last_op'.op = "toggle" /\ last_op'.ran)
             => /\ mode' = CASE mode = "strict" -> "loose"
                             [] mode = "loose" -> "drive-by"
                             [] mode = "drive-by" -> "recon"
                             [] mode = "recon" -> "auto"
                             [] OTHER -> "strict"
                /\ NextMode(NextMode(NextMode(NextMode(mode')))) = mode
       /\ (last_op'.op = "toggle" /\ ~last_op'.ran) => mode' = mode]_vars

\* C19's case: a toggle wraps from auto to strict.
C19_Witness ==
    /\ last_op.op = "toggle"
    /\ last_op.ran
    /\ last_op.old = "auto"
    /\ mode = "strict"

\* C20: loading the snapshot never leaves an invalid mode: with a missing file
\* the store is empty and the mode is strict; with an unrecognized persisted
\* mode the mode is strict; with a corrupt file the store is empty and the mode
\* is strict.
C20_LoadTolerant ==
    last_op.op \in {"init", "start"}
        => /\ mode \in {"strict", "loose", "drive-by", "recon", "auto"}
           /\ disk.state = "missing" => memory = EmptyMap /\ mode = "strict"
           /\ disk.state = "corrupt" => memory = EmptyMap /\ mode = "strict"
           /\ (disk.state = "ok" /\ disk.mode \notin {"strict", "loose", "drive-by",
                                                       "recon", "auto"})
                 => mode = "strict"
           /\ (disk.state = "ok" /\ disk.mode \in {"strict", "loose", "drive-by",
                                                    "recon", "auto"})
                 => mode = disk.mode /\ memory = disk.ap_data

\* C20's case: a restart finds the file a torn write left.
C20_Witness ==
    /\ last_op.op = "start"
    /\ disk.state = "corrupt"
    /\ memory = EmptyMap
    /\ mode = "strict"

-----------------------------------------------------------------------------
(* Channel selection over a store with a channel that has clients, one that *)
(* has none and one the radio does not support.                             *)

\* An AP on channel 6 with a client, one on channel 11 without clients and one
\* on channel 13, which is not in the supported list.
ScanSix == <<[mac |-> "aa:06", hostname |-> "six", channel |-> 6,
              clients |-> <<[mac |-> "cc:06", rssi |-> -60]>>]>>
ScanEleven == <<[mac |-> "aa:0b", hostname |-> "eleven", channel |-> 11,
                 clients |-> <<>>]>>
ScanThirteen == <<[mac |-> "aa:0d", hostname |-> "thirteen", channel |-> 13,
                   clients |-> <<[mac |-> "cc:0d", rssi |-> -60]>>]>>

InitSelect == InitWith({{"home"}}, {TRUE})

NextSelect ==
    \/ \E a \in {ScanSix, ScanEleven, ScanThirteen} : OnWifiUpdate(a)
    \/ OnEpoch(<<1, 6, 11>>, FALSE, "ok")
    \/ OnReady
    \/ Tick(901, DriveByHorizon)

SpecSelect == InitSelect /\ [][NextSelect]_vars

\* The channels tracked in the store, and those of positive weight: a weight
\* is clients + 10 * handshakes (times 1.5 for some), so it is positive when an
\* AP on the channel has a client or a handshake.
Tracked(mem) == {mem[a].channel : a \in DOMAIN mem}
Positive(mem) ==
    {mem[a].channel : a \in {x \in DOMAIN mem :
                               mem[x].clients # EmptyMap \/ mem[x].handshakes > 0}}

\* C21: Strict returns a tracked-and-supported channel of weight > 0 when there
\* is one (only channel 6 tracked with weight > 0 and supported 1, 6, 11: always
\* 6); a tracked-and-supported channel when all their weights are zero; and any
\* supported channel when no tracked channel is supported.
C21_StrictSelection ==
    (last_op.op = "epoch" /\ last_op.outcome = "set" /\ last_op.via = "strict")
        => LET sup == Range(last_op.supported)
               ts == Tracked(memory) \cap sup
               pos == Positive(memory) \cap sup
           IN /\ pos # {} => last_op.channel \in pos
              /\ (pos = {} /\ ts # {}) => last_op.channel \in ts
              /\ ts = {} => last_op.channel \in sup

\* C21's case: channels 6 (with a client) and 11 (without) are tracked and
\* Strict has chosen among 1, 6 and 11.
C21_Witness ==
    /\ last_op.op = "epoch"
    /\ last_op.via = "strict"
    /\ last_op.supported = <<1, 6, 11>>
    /\ Tracked(memory) = {6, 11}
    /\ Positive(memory) = {6}
    /\ last_op.channel = 6

-----------------------------------------------------------------------------
(* The stationary-since timer across modes: a burst of new APs, epochs,     *)
(* toggles and a clock that reaches STATIONARY_SECONDS, starting in auto.   *)

InitTimer == InitFrom({{"home"}}, {TRUE}, {AutoFile})

NextTimer ==
    \/ OnWifiUpdate(ScanA)
    \/ OnEpoch(<<1>>, FALSE, "ok")
    \/ ToggleMode("ok")
    \/ OnReady
    \/ Tick(3600, AutoHorizon)

SpecTimer == InitTimer /\ [][NextTimer]_vars

\* C22: an epoch whose new-AP activity over the window is at or above
\* ACTIVITY_THRESHOLD (5) resets the stationary-since timer, whatever the mode,
\* so that the device is judged stationary only after STATIONARY_SECONDS of
\* epochs with low activity.
C22_ActiveEpochResetsTimer ==
    (/\ last_op.op = "epoch"
     /\ last_op.outcome = "set"
     /\ RecentActivity(activity_history, now) >= 5)
        => stationary_start = None

-----------------------------------------------------------------------------
(* Every operation on the store before on_ready: scans, captures, epochs    *)
(* (their sweep), toggles, status reads, the save at unload and the clock,  *)
(* in drive-by mode at the start so that records expire within the horizon. *)

InitFrame == InitFrom({{"home"}}, {TRUE}, {DriveByFile})

NextFrame ==
    \/ OnWifiUpdate(<<GoodLast>>)
    \/ OnHandshake("aa:02", "cc:02")
    \/ OnEpoch(<<1, 6, 11>>, FALSE, "ok")
    \/ ToggleMode("ok")
    \/ Dashboard
    \/ OnUiUpdate
    \/ OnUnload("ok")
    \/ Tick(1801, DriveByHorizon)

SpecFrame == InitFrame /\ [][NextFrame]_vars

\* C23: records are removed only by expiry sweeps: a scan, a capture, a mode
\* toggle, a status or dashboard read and a snapshot save remove no AP record
\* and no client record, and what an epoch removes (channel selection
\* included) is past its TTL.
C23_OnlySweepsRemove ==
    [][/\ last_op'.op \in {"wifi", "handshake", "toggle", "dashboard", "ui",
                           "unload", "ready"}
             => Records(memory) \subseteq Records(memory')
       /\ last_op'.op = "epoch"
             => \A a \in DOMAIN memory :
                   /\ a \notin DOMAIN memory'
                         => now - memory[a].last_seen > ApExpiry(mode)
                   /\ a \in DOMAIN memory'
                         => \A c \in DOMAIN memory[a].clients :
                               c \notin DOMAIN memory'[a].clients
                                  => now - memory[a].clients[c].last_seen
                                        > ClientExpiry(mode)]_vars

\* C23's case: a record past its TTL is still in the store after an operation
\* that is not a sweep.
C23_Witness ==
    /\ last_op.op \in {"wifi", "handshake", "toggle", "dashboard", "unload"}
    /\ \E a \in DOMAIN memory : now - memory[a].last_seen > ApExpiry(mode)

\* C24: the cached ChannelStats is coherent: whenever the dirty flag is clear
\* and the cache is non-empty, the cache is the aggregate of the current store,
\* every mutation of the store having set the flag.
C24_CacheCoherent ==
    (~memory_is_dirty /\ channel_stats # EmptyMap)
        => channel_stats = GetChannelStats(memory)

-----------------------------------------------------------------------------
(* Auto mode with its readers: scans, epochs, the status reads (UI update   *)
(* and dashboard) and the attack work items of the pool.                    *)

InitStatus == InitFrom({{"office"}}, {TRUE}, {AutoFile})

NextStatus ==
    \/ \E a \in {ScanA, ScanStrong} : OnWifiUpdate(a)
    \/ OnEpoch(<<1>>, FALSE, "ok")
    \/ OnReady
    \/ Dashboard
    \/ OnUiUpdate
    \/ \E i \in 1..MaxTasks : AttackCheck(i)
    \/ \E i \in 1..MaxTasks : AttackAct(i)
    \/ Tick(3600, AutoHorizon)

SpecStatus == InitStatus /\ [][NextStatus]_vars

\* C25: in auto mode the sub-mode is computed once per epoch and reused: a
\* status read (UI update, dashboard) shows the stored sub-mode, the attack
\* gate suppresses exactly when the stored sub-mode is recon, and neither a
\* status read nor attack execution changes the stored sub-mode or the
\* stationary-since timer.
C25_SubModeReused ==
    [][(mode = "auto" /\ plugin_enabled
            /\ last_op'.op \in {"dashboard", "ui", "check", "attack"})
        => /\ current_auto_submode' = current_auto_submode
           /\ stationary_start' = stationary_start
           /\ last_op'.op \in {"dashboard", "ui"}
                => last_op'.shown = current_auto_submode
           /\ last_op'.op = "check"
                => last_op'.go = (current_auto_submode # "recon")]_vars

-----------------------------------------------------------------------------
(* Epochs once ready, with records that expire between them: one AP sighted *)
(* per scan, the mode starting at drive-by and toggled onwards.             *)

InitOrder == InitFrom({{"home"}}, {TRUE}, {DriveByFile})

NextOrder ==
    \/ \E a \in {<<GoodFirst>>, <<GoodLast>>} : OnWifiUpdate(a)
    \/ OnEpoch(<<1, 6>>, FALSE, "ok")
    \/ OnReady
    \/ ToggleMode("ok")
    \/ Tick(1801, DriveByHorizon)

SpecOrder == InitOrder /\ [][NextOrder]_vars

\* C26: within one epoch the sweep comes before aggregation and aggregation
\* before selection: when a weighted policy (Strict, Loose, Drive-by, Recon
\* after its pass) has selected, the cache is clean and holds, per channel,
\* the APs that were within the AP TTL of the sweep at the epoch and their
\* clients that were within the client TTL, and nothing from a record past it.
C26_SweepBeforeSelection ==
    [][(/\ last_op'.op = "epoch"
        /\ last_op'.outcome = "set"
        /\ last_op'.via \in {"strict", "loose", "drive-by", "recon-strict"})
        => LET live == {a \in DOMAIN memory :
                           now - memory[a].last_seen <= ApExpiry(mode)}
               liveClients(a) ==
                   {c \in DOMAIN memory[a].clients :
                       now - memory[a].clients[c].last_seen <= ClientExpiry(mode)}
           IN /\ ~memory_is_dirty'
              /\ DOMAIN channel_stats' = {memory[a].channel : a \in live}
              /\ \A ch \in DOMAIN channel_stats' :
                    LET on == {a \in live : memory[a].channel = ch}
                    IN /\ channel_stats'[ch].aps = Cardinality(on)
                       /\ channel_stats'[ch].clients =
                             Cardinality(UNION {{<<a, c>> : c \in liveClients(a)} :
                                                    a \in on})]_vars

\* C26's case: a weighted policy has selected in an epoch whose sweep removed
\* a record, with another record still tracked.
C26_Witness ==
    /\ last_op.op = "epoch"
    /\ last_op.outcome = "set"
    /\ last_op.via \in {"strict", "loose", "drive-by", "recon-strict"}
    /\ last_op.removed > 0
    /\ channel_stats # EmptyMap

\* C27: an epoch whose selection is made by the Drive-by policy (mode drive-by,
\* or mode auto with sub-mode drive-by) has swept with the drive-by TTLs (APs
\* 1800 s, clients 900 s); every other selecting epoch has swept with the
\* default TTLs (48 h and 24 h).
C27_SweepTTLFollowsPolicy ==
    [][(last_op'.op = "epoch" /\ last_op'.outcome = "set")
        => LET driveby == last_op'.via = "drive-by"
               ap_ttl == IF driveby THEN 1800 ELSE 172800
               client_ttl == IF driveby THEN 900 ELSE 86400
           IN /\ DOMAIN memory' = {a \in DOMAIN memory :
                                      now - memory[a].last_seen <= ap_ttl}
              /\ \A a \in DOMAIN memory' :
                    DOMAIN memory'[a].clients =
                        {c \in DOMAIN memory[a].clients :
                            now - memory[a].clients[c].last_seen <= client_ttl}]_vars

-----------------------------------------------------------------------------
(* The aggregate over stores with several APs on one channel: scans of two  *)
(* APs on channel 1 and one on channel 6, captures, epochs and the          *)
(* dashboard, all within one second.                                        *)

ScanLab == <<[mac |-> "aa:03", hostname |-> "lab", channel |-> 1,
              clients |-> <<[mac |-> "cc:03", rssi |-> -110],
                            [mac |-> "cc:04", rssi |-> -110]>>],
             GoodLast>>

InitAggregate == InitWith({{"office"}}, {TRUE})

NextAggregate ==
    \/ \E a \in {<<GoodFirst>>, ScanLab} : OnWifiUpdate(a)
    \/ OnHandshake("aa:01", "cc:01")
    \/ OnEpoch(<<1, 6>>, FALSE, "ok")
    \/ OnReady
    \/ Dashboard

SpecAggregate == InitAggregate /\ [][NextAggregate]_vars

\* The sum of field f of the entries of stats over the channels in chans.
RECURSIVE Total(_, _, _)
Total(stats, chans, f) ==
    IF chans = {} THEN 0
    ELSE LET ch == CHOOSE x \in chans : TRUE
         IN stats[ch][f] + Total(stats, chans \ {ch}, f)

\* The client records of the APs in aps, as pairs.
ClientsOf(mem, aps) == UNION {{<<a, c>> : c \in DOMAIN mem[a].clients} : a \in aps}

\* The sum of the handshake counters of the APs in aps (each at most
\* MaxHandshakes).
HandshakesOf(mem, aps) ==
    Cardinality({<<a, k>> \in aps \X (1..MaxHandshakes) : mem[a].handshakes >= k})

\* C28: the aggregate of the store has an entry exactly for each channel a
\* tracked AP is on, holding the number of APs on the channel, the number of
\* their client records and the sum of their handshake counters; over all
\* channels these add up to the number of tracked APs, of client records and
\* of handshakes.
C28_AggregateExact ==
    LET stats == GetChannelStats(memory)
        all == DOMAIN memory
    IN /\ DOMAIN stats = {memory[a].channel : a \in all}
       /\ \A ch \in DOMAIN stats :
             LET on == {a \in all : memory[a].channel = ch}
             IN stats[ch] = [aps |-> Cardinality(on),
                             clients |-> Cardinality(ClientsOf(memory, on)),
                             handshakes |-> HandshakesOf(memory, on)]
       /\ Total(stats, DOMAIN stats, "aps") = Cardinality(all)
       /\ Total(stats, DOMAIN stats, "clients") = Cardinality(ClientsOf(memory, all))
       /\ Total(stats, DOMAIN stats, "handshakes") = HandshakesOf(memory, all)

\* C28's case: an epoch or the dashboard has aggregated a store with two APs on
\* channel 1, one of them with a capture, and a third AP on channel 6.
C28_Witness ==
    /\ last_op.op \in {"epoch", "dashboard"}
    /\ ~memory_is_dirty
    /\ DOMAIN channel_stats = {1, 6}
    /\ channel_stats[1].aps = 2
    /\ channel_stats[1].clients = 3
    /\ channel_stats[1].handshakes > 0
    /\ channel_stats = GetChannelStats(memory)

-----------------------------------------------------------------------------
(* Saves and restarts with a store worth keeping: a client whose attempt    *)
(* has been marked, a capture, saves that succeed, fail or are torn, in     *)
(* mode drive-by.                                                           *)

InitRestart == InitFrom({{"office"}}, {TRUE}, {DriveByFile})

NextRestart ==
    \/ OnWifiUpdate(<<GoodFirst>>)
    \/ OnHandshake("aa:01", "cc:01")
    \/ \E io \in {"ok", "fail"} : OnEpoch(<<1, 6>>, FALSE, io)
    \/ OnReady
    \/ \E io \in {"ok", "fail", "torn"} : OnUnload(io)
    \/ Start
    \/ \E i \in 1..MaxTasks : AttackCheck(i)
    \/ \E i \in 1..MaxTasks : AttackAct(i)
    \/ Tick(150, GateHorizon)

SpecRestart == InitRestart /\ [][NextRestart]_vars

\* C29: a save followed by a load restores the mode and the store with every
\* field of every AP and client record: a restart right after an unload whose
\* save succeeded starts with the mode and store the plugin had, and after an
\* epoch whose save succeeded the snapshot loads to the mode and store the epoch
\* left.  A save, failed or not, leaves the mode and the store in memory as they
\* were, and a failed save leaves the snapshot as it was.
C29_RoundTrip ==
    [][/\ (last_op'.op = "start" /\ last_op.op = "unload" /\ last_op.io = "ok")
            => memory' = memory /\ mode' = mode
       /\ (/\ last_op'.op = "epoch"
           /\ last_op'.outcome \notin {"disabled", "not_ready"}
           /\ last_op'.io = "ok")
            => /\ LoadMemory(disk').memory = memory'
               /\ LoadMemory(disk').mode = mode'
       /\ last_op'.op = "unload"
            => /\ memory' = memory /\ mode' = mode
               /\ last_op'.io = "fail" => disk' = disk
       /\ (/\ last_op'.op = "epoch"
           /\ last_op'.outcome \notin {"disabled", "not_ready"}
           /\ last_op'.io = "fail")
            => disk' = disk]_vars

\* C29's case: the plugin has restarted from a snapshot in mode drive-by with
\* a client whose attempt was marked and an AP with a capture.
C29_Witness ==
    /\ last_op.op = "start"
    /\ mode = "drive-by"
    /\ \E a \in DOMAIN memory :
          /\ memory[a].handshakes > 0
          /\ \E c \in DOMAIN memory[a].clients :
                /\ memory[a].clients[c].last_attempt > 0
                /\ memory[a].clients[c].last_success > 0

-----------------------------------------------------------------------------
(* One AP sighted again and again with a different client each time, in     *)
(* mode drive-by so that the gate marks attempts, with captures in between. *)

\* The AP of GoodFirst sighted with another client, too weak for the gate.
ScanOther == <<[mac |-> "AA:01", hostname |-> "home", channel |-> 1,
                clients |-> <<[mac |-> "cc:09", rssi |-> -110]>>]>>

InitResight == InitFrom({{"office"}}, {TRUE}, {DriveByFile})

NextResight ==
    \/ \E a \in {<<GoodFirst>>, ScanOther} : OnWifiUpdate(a)
    \/ OnHandshake("aa:01", "cc:01")
    \/ \E i \in 1..MaxTasks : AttackCheck(i)
    \/ \E i \in 1..MaxTasks : AttackAct(i)
    \/ Tick(150, GateHorizon)

SpecResight == InitResight /\ [][NextResight]_vars

\* The clients listed under AP a in a scan.
SeenClients(aps, a) ==
    UNION {{Lower(aps[i].clients[j].mac) : j \in 1..Len(aps[i].clients)} :
              i \in {k \in 1..Len(aps) : Lower(aps[k].mac) = a}}

\* C30: ingesting a tracked AP leaves its handshake counter and the records of
\* its clients that are not in the scan unchanged; ingesting a tracked client
\* leaves its last-success unchanged and changes its last-attempt only when
\* the gate marks an attempt (to the time of the scan); and in every step a
\* record that stays has a handshake counter, a last-attempt and a
\* last-success not below what they were.
C30_ResightPreserves ==
    [][/\ (last_op'.op = "wifi" /\ last_op'.ran)
            => \A a \in DOMAIN memory :
                  /\ a \in DOMAIN memory'
                  /\ memory'[a].handshakes = memory[a].handshakes
                  /\ \A c \in DOMAIN memory[a].clients :
                        LET old == memory[a].clients[c]
                            new == memory'[a].clients[c]
                            hits == {i \in 1..Len(last_op'.marked) :
                                        /\ last_op'.marked[i].ap = a
                                        /\ last_op'.marked[i].client = c}
                        IN /\ c \in DOMAIN memory'[a].clients
                           /\ c \notin SeenClients(last_op'.aps, a) => new = old
                           /\ new.last_success = old.last_success
                           /\ new.last_attempt # old.last_attempt
                                 => hits # {} /\ new.last_attempt = now
                           /\ hits = {} => new.last_attempt = old.last_attempt
       /\ \A a \in DOMAIN memory \cap DOMAIN memory' :
             /\ memory'[a].handshakes >= memory[a].handshakes
             /\ \A c \in DOMAIN memory[a].clients \cap DOMAIN memory'[a].clients :
                   /\ memory'[a].clients[c].last_attempt
                         >= memory[a].clients[c].last_attempt
                   /\ memory'[a].clients[c].last_success
                         >= memory[a].clients[c].last_success]_vars

\* C30's case: a scan has sighted again an AP with a capture, marking a second
\* attempt on one of its clients, while another of its clients is not in the
\* scan.
C30_Witness ==
    /\ last_op.op = "wifi"
    /\ \E i \in 1..Len(last_op.marked) : last_op.marked[i].prev > 0
    /\ \E a \in DOMAIN memory :
          /\ memory[a].handshakes > 0
          /\ \E c \in DOMAIN memory[a].clients :
                /\ c \notin SeenClients(last_op.aps, a)
          /\ \E c \in DOMAIN memory[a].clients :
                /\ c \in SeenClients(last_op.aps, a)
                /\ memory[a].clients[c].last_success > 0

====
